---- MODULE Spec2Model ----
(***************************************************************************)
(* apitrace trim (cli/cli_trim.cpp): the option loop of `command` and the  *)
(* two passes of `trim_trace` over a recorded call stream.                 *)
(*                                                                         *)
(* The trace file is the environment: its calls are revealed one by one as *)
(* the parser first reads them (`stream`, `eof`), and are re-read from the *)
(* bookmark in pass 2.  CallSet and TraceAnalyzer are not part of          *)
(* cli_trim.cpp; they are modelled from their documented contracts.        *)
(***************************************************************************)
EXTENDS Integers, Sequences, FiniteSets, TLC

\* Longest trace file considered (number of calls in the stream).
MaxCalls == 3

\* Thread ids recorded in a trace, and the flags of trace::Call the code reads.
ThreadIds == {0, 1}
CALL_FLAG_VERBOSE == "VERBOSE"
CALL_FLAG_END_FRAME == "END_FRAME"
CallFlags == {CALL_FLAG_VERBOSE, CALL_FLAG_END_FRAME}

\* The --thread= arguments tried.
ThreadArgs == {0}

\* The input file name (argv[optind]) as base and extension, and the -o argument.
InputName == <<"in", ".trace">>
OutputArg == <<"out.trace">>

----------------------------------------------------------------------------
(* trace::CallSet *)

Range(a, b) == [start |-> a, stop |-> b, open |-> FALSE]
OpenRange(a) == [start |-> a, stop |-> a, open |-> TRUE]

\* CallSet(FREQUENCY_NONE), CallSet(FREQUENCY_ALL), CallSet(const char *)
CallSetNone == [all |-> FALSE, ranges |-> {}]
CallSetAll == [all |-> TRUE, ranges |-> {}]
CallSetParse(text) == [all |-> FALSE, ranges |-> {text[i] : i \in DOMAIN text}]

CallSetEmpty(cs) == ~cs.all /\ cs.ranges = {}

CallSetContains(cs, n) ==
    \/ cs.all
    \/ \E r \in cs.ranges : r.start <= n /\ (r.open \/ n <= r.stop)

\* contains(frame, call->flags): ranges written as a-b match every call of
\* the frames they name, whatever its flags.
CallSetContainsFrame(cs, n, flags) == CallSetContains(cs, n)

SetMax(S) == CHOOSE m \in S : \A x \in S : x <= m

\* getLast(): inf = 1 is +infinity, inf = -1 is -infinity, inf = 0 is finite n.
CallSetGetLast(cs) ==
    IF cs.all \/ \E r \in cs.ranges : r.open THEN [inf |-> 1, n |-> 0]
    ELSE IF cs.ranges = {} THEN [inf |-> -1, n |-> 0]
    ELSE [inf |-> 0, n |-> SetMax({r.stop : r \in cs.ranges})]

\* n > bound
Exceeds(n, bound) == bound.inf = -1 \/ (bound.inf = 0 /\ n > bound.n)

\* The --calls= and --frames= arguments tried, as parsed range lists.
CallsArgs == { <<Range(1, 1)>>, <<Range(0, 1)>> }
FramesArgs == { <<Range(0, 0)>>, <<Range(1, 1)>>, <<OpenRange(0)>> }

----------------------------------------------------------------------------
VARIABLES
    pc,                 \* where command / trim_trace stands
    options,            \* struct trim_options
    stream,             \* the calls of the trace file read so far, in file order
    eof,                \* the file holds no call after those of stream
    pos,                \* calls parsed since the bookmark
    frame,              \* unsigned frame
    tracked,            \* TraceAnalyzer: state recorded by analyze
    required,           \* TraceAnalyzer: std::set<unsigned> required
    written,            \* calls passed to writer.writeCall, in order
    call_range_first,
    call_range_last,
    out,                \* stdout of --print-callset, as printed pieces
    err,                \* stderr: the error reported, if any
    exit_code,          \* return value of command (-1 while running)
    positional,         \* argc - optind once the option loop has ended (-1 before)
    live,               \* call records returned by parse_call and not yet deleted
    requireLog,         \* calls handed to analyzer.require, in order
    analyzeLog,         \* calls handed to analyzer.analyze, in order
    seen1,              \* per call pass 1 went on to process: <<call, frame>>
    seen2,              \* per call pass 2 went on to process: <<call, frame>>
    stop1,              \* <<call, frame>> at which pass 1 took its break, or <<>>
    stop2               \* <<call, frame>> at which pass 2 took its break, or <<>>

vars == << pc, options, stream, eof, pos, frame, tracked, required, written,
           call_range_first, call_range_last, out, err, exit_code,
           positional, live, requireLog, analyzeLog, seen1, seen2, stop1, stop2 >>

parserVars == << stream, eof, pos >>
analyzerVars == << tracked, required, requireLog, analyzeLog >>
printVars == << call_range_first, call_range_last, out >>
passLogs == << seen1, seen2, stop1, stop2 >>

----------------------------------------------------------------------------
(* command: option defaults and the getopt_long loop *)

Init ==
    /\ pc = "getopt"
    /\ options = [ calls |-> CallSetNone,
                   frames |-> CallSetNone,
                   dependency_analysis |-> FALSE,
                   prune_uninteresting |-> FALSE,
                   output |-> <<>>,
                   thread |-> -1,
                   print_callset |-> 0 ]
    /\ stream = <<>>
    /\ eof = FALSE
    /\ pos = 0
    /\ frame = 0
    /\ tracked = {}
    /\ required = {}
    /\ written = <<>>
    /\ call_range_first = -1
    /\ call_range_last = -1
    /\ out = <<>>
    /\ err = <<>>
    /\ exit_code = -1
    /\ positional = -1
    /\ live = 0
    /\ requireLog = <<>>
    /\ analyzeLog = <<>>
    /\ seen1 = <<>>
    /\ seen2 = <<>>
    /\ stop1 = <<>>
    /\ stop2 = <<>>

SetOption(new) ==
    /\ pc = "getopt"
    /\ options' = new
    /\ UNCHANGED << pc, parserVars, frame, analyzerVars, written, printVars,
                    err, exit_code, live, positional, passLogs >>

OptCalls == \E arg \in CallsArgs :
    SetOption([options EXCEPT !.calls = CallSetParse(arg)])

OptFrames == \E arg \in FramesArgs :
    SetOption([options EXCEPT !.frames = CallSetParse(arg)])

OptDeps == SetOption([options EXCEPT !.dependency_analysis = TRUE])

OptPrune == SetOption([options EXCEPT !.prune_uninteresting = TRUE])

OptAuto == SetOption([options EXCEPT !.dependency_analysis = TRUE,
                                     !.prune_uninteresting = TRUE])

OptThread == \E t \in ThreadArgs :
    SetOption([options EXCEPT !.thread = t])

OptOutput == SetOption([options EXCEPT !.output = OutputArg])

OptPrintCallset == SetOption([options EXCEPT !.print_callset = 1])

\* A line on stderr naming `path` (<<>> when it names none).
Report(msg, path) == << [msg |-> msg, path |-> path] >>

Exit(code, message) ==
    /\ pc' = "exit"
    /\ exit_code' = code
    /\ err' = message

OptHelp ==
    /\ pc = "getopt"
    /\ Exit(0, err)
    /\ UNCHANGED << options, parserVars, frame, analyzerVars, written,
                    printVars, live, positional, passLogs >>

OptUnexpected ==
    /\ pc = "getopt"
    /\ Exit(1, Report("unexpected option", <<>>))
    /\ UNCHANGED << options, parserVars, frame, analyzerVars, written,
                    printVars, live, positional, passLogs >>

\* After the loop: the default selection.
DefaultCalls(o) ==
    IF CallSetEmpty(o.calls) /\ CallSetEmpty(o.frames)
    THEN [o EXCEPT !.calls = CallSetAll]
    ELSE o

\* The option loop's end without the test for extraneous arguments.
EndOptions_NoExtraCheck == \E npos \in 0..2 :
    /\ pc = "getopt"
    /\ options' = DefaultCalls(options)
    /\ positional' = npos
    /\ IF npos = 0
         THEN Exit(1, Report("requires a trace file", <<>>))
       ELSE /\ pc' = "trim_trace"
            /\ UNCHANGED << exit_code, err >>
    /\ UNCHANGED << parserVars, frame, analyzerVars, written, printVars,
                    live, passLogs >>

\* getopt_long returned -1 with npos positional arguments left.
EndOptions == \E npos \in 0..2 :
    /\ pc = "getopt"
    /\ options' = DefaultCalls(options)
    /\ positional' = npos
    /\ IF npos = 0
         THEN Exit(1, Report("requires a trace file", <<>>))
       ELSE IF npos > 1
         THEN Exit(1, Report("extraneous arguments", <<>>))
       ELSE /\ pc' = "trim_trace"
            /\ UNCHANGED << exit_code, err >>
    /\ UNCHANGED << parserVars, frame, analyzerVars, written, printVars,
                    live, passLogs >>

----------------------------------------------------------------------------
(* TraceAnalyzer *)

\* The analyzed calls whose recorded state the calls numbered in `nos` rest
\* on, directly or through other analyzed calls.
RECURSIVE Providers(_, _, _)
Providers(nos, state, fuel) ==
    LET direct == UNION {t.needs : t \in {x \in state : x.no \in nos}}
        found == {t.no : t \in {x \in state : x.no \in direct}}
    IN
    IF fuel = 0 \/ found \subseteq nos THEN nos
    ELSE Providers(nos \cup found, state, fuel - 1)

\* analyzer.analyze(call): record the state the call sets up.
AnalyzerAnalyze(call, state) == state \cup {[no |-> call.no, needs |-> call.needs]}

\* analyzer.require(call): the call and its dependency closure over the
\* state recorded so far.
AnalyzerRequire(call, state, req) ==
    LET roots == {t.no : t \in {x \in state : x.no \in call.needs}}
    IN  req \cup {call.no} \cup Providers(roots, state, Cardinality(state))

----------------------------------------------------------------------------
(* trace::Parser *)

LastNo == IF stream = <<>> THEN -1 ELSE stream[Len(stream)].no

Call(n, t, f, d) == [no |-> n, thread_id |-> t, flags |-> f, needs |-> d]

\* The calls the file may hold after the ones read so far, numbered
\* consecutively as the tracer records them: a call of any thread with any
\* flags that rests on no earlier call, or a call without flags that rests
\* on the state set up by the call before it.
FreshCalls ==
    IF eof \/ Len(stream) >= MaxCalls THEN {}
    ELSE { Call(LastNo + 1, t, f, {}) : t \in ThreadIds, f \in SUBSET CallFlags }
         \cup
         { Call(LastNo + 1, t, {}, {stream[i].no}) :
             t \in ThreadIds, i \in {Len(stream)} \ {0} }

\* p.parse_call() returning a call.
NextCalls == IF pos < Len(stream) THEN {stream[pos + 1]} ELSE FreshCalls

\* p.parse_call() returning NULL.
AtEnd == pos = Len(stream)

Parsed(call) ==
    /\ pos' = pos + 1
    /\ stream' = IF pos < Len(stream) THEN stream ELSE Append(stream, call)
    /\ UNCHANGED eof

----------------------------------------------------------------------------
(* trim_trace *)

OpenInputFail ==
    /\ pc = "trim_trace"
    /\ Exit(1, Report("failed to open", InputName))
    /\ UNCHANGED << options, parserVars, frame, analyzerVars, written,
                    printVars, live, positional, passLogs >>

\* p.open succeeded; getBookmark(beginning); frame = 0.
OpenInput ==
    /\ pc = "trim_trace"
    /\ pc' = "pass1"
    /\ pos' = 0
    /\ frame' = 0
    /\ UNCHANGED << options, stream, eof, analyzerVars, written, printVars,
                    err, exit_code, live, positional, passLogs >>

\* "There's no use doing any work past the last call or frame requested"
PastLast(call, fr, o) ==
    \/ Exceeds(call.no, CallSetGetLast(o.calls))
    \/ Exceeds(fr, CallSetGetLast(o.frames))

\* The thread test with its comparison inverted.
OtherThread_Inverted(call, o) == o.thread # -1 /\ call.thread_id = o.thread

\* "ignore all calls not belonging to the specified thread"
OtherThread(call, o) == o.thread # -1 /\ call.thread_id # o.thread

\* "prune if uninteresting"
Uninteresting(call, o) ==
    o.prune_uninteresting /\ CALL_FLAG_VERBOSE \in call.flags

\* "this call is included in the user-specified call set"
Selected(call, fr, o) ==
    \/ CallSetContains(o.calls, call.no)
    \/ CallSetContainsFrame(o.frames, fr, call.flags)

\* NEXT: frame++ on CALL_FLAG_END_FRAME
NextFrame(call, fr) == IF CALL_FLAG_END_FRAME \in call.flags THEN fr + 1 ELSE fr

\* Pass 1: parse_call returned NULL.
Pass1Eof ==
    /\ pc = "pass1"
    /\ AtEnd
    /\ eof' = TRUE
    /\ pc' = "prepare"
    /\ UNCHANGED << options, stream, pos, frame, analyzerVars, written,
                    printVars, err, exit_code, live, positional, passLogs >>

\* Pass 1: delete call; break.
Pass1Stop == \E call \in NextCalls :
    /\ pc = "pass1"
    /\ Parsed(call)
    /\ PastLast(call, frame, options)
    /\ stop1' = << <<call, frame>> >>
    /\ pc' = "prepare"
    /\ UNCHANGED << options, frame, analyzerVars, written, printVars, err,
                    exit_code, live, positional, seen1, seen2, stop2 >>

\* The thread gate leaving the loop body with `continue`: no frame++.
Pass1OtherThread_NoFrame == \E call \in NextCalls :
    /\ pc = "pass1"
    /\ Parsed(call)
    /\ ~PastLast(call, frame, options)
    /\ OtherThread(call, options)
    /\ seen1' = Append(seen1, <<call, frame>>)
    /\ UNCHANGED << pc, options, frame, analyzerVars, written, printVars, err,
                    exit_code, live, positional, seen2, stop1, stop2 >>

\* Pass 1: goto NEXT on a call of another thread.
Pass1OtherThread == \E call \in NextCalls :
    /\ pc = "pass1"
    /\ Parsed(call)
    /\ ~PastLast(call, frame, options)
    /\ OtherThread(call, options)
    /\ seen1' = Append(seen1, <<call, frame>>)
    /\ frame' = NextFrame(call, frame)
    /\ UNCHANGED << pc, options, analyzerVars, written, printVars, err,
                    exit_code, live, positional, seen2, stop1, stop2 >>

\* Pass 1: goto NEXT on an uninteresting call.
Pass1Prune == \E call \in NextCalls :
    /\ pc = "pass1"
    /\ Parsed(call)
    /\ ~PastLast(call, frame, options)
    /\ ~OtherThread(call, options)
    /\ Uninteresting(call, options)
    /\ seen1' = Append(seen1, <<call, frame>>)
    /\ frame' = NextFrame(call, frame)
    /\ UNCHANGED << pc, options, analyzerVars, written, printVars, err,
                    exit_code, live, positional, seen2, stop1, stop2 >>

\* Pass 1: require the call if selected, analyze it if requested, then NEXT.
Pass1Call == \E call \in NextCalls :
    /\ pc = "pass1"
    /\ Parsed(call)
    /\ ~PastLast(call, frame, options)
    /\ ~OtherThread(call, options)
    /\ ~Uninteresting(call, options)
    /\ IF Selected(call, frame, options)
         THEN /\ required' = AnalyzerRequire(call, tracked, required)
              /\ requireLog' = Append(requireLog, call)
         ELSE UNCHANGED << required, requireLog >>
    /\ IF options.dependency_analysis
         THEN /\ tracked' = AnalyzerAnalyze(call, tracked)
              /\ analyzeLog' = Append(analyzeLog, call)
         ELSE UNCHANGED << tracked, analyzeLog >>
    /\ seen1' = Append(seen1, <<call, frame>>)
    /\ frame' = NextFrame(call, frame)
    /\ UNCHANGED << pc, options, written, printVars, err, exit_code, live, positional,
                    seen2, stop1, stop2 >>

\* base.trimExtension(); base + "-trim.trace"
TrimExtension(name) == SubSeq(name, 1, Len(name) - 1)
DefaultOutput(o, filename) ==
    IF o.output = <<>>
    THEN [o EXCEPT !.output = TrimExtension(filename) \o <<"-trim.trace">>]
    ELSE o

\* writer.open failed, reported, but without the return.
WriterOpenFail_GoesOn ==
    /\ pc = "prepare"
    /\ options' = DefaultOutput(options, InputName)
    /\ err' = Report("failed to create", InputName)
    /\ pos' = 0
    /\ frame' = 0
    /\ call_range_first' = -1
    /\ call_range_last' = -1
    /\ pc' = "pass2"
    /\ UNCHANGED << stream, eof, analyzerVars, written, out, exit_code,
                    live, positional, passLogs >>

\* writer.open failed.
WriterOpenFail ==
    /\ pc = "prepare"
    /\ options' = DefaultOutput(options, InputName)
    /\ Exit(1, Report("failed to create", InputName))
    /\ UNCHANGED << parserVars, frame, analyzerVars, written, printVars,
                    live, positional, passLogs >>

\* writer.open succeeded, but the parser is not set back to the bookmark.
WriterOpen_NoRewind ==
    /\ pc = "prepare"
    /\ options' = DefaultOutput(options, InputName)
    /\ frame' = 0
    /\ call_range_first' = -1
    /\ call_range_last' = -1
    /\ pc' = "pass2"
    /\ UNCHANGED << parserVars, analyzerVars, written, out, err, exit_code,
                    live, positional, passLogs >>

\* writer.open succeeded; setBookmark(beginning); get_required(); the
\* counters of pass 2 are reset.
WriterOpen ==
    /\ pc = "prepare"
    /\ options' = DefaultOutput(options, InputName)
    /\ pos' = 0
    /\ frame' = 0
    /\ call_range_first' = -1
    /\ call_range_last' = -1
    /\ pc' = "pass2"
    /\ UNCHANGED << stream, eof, analyzerVars, written, out, err, exit_code,
                    live, positional, passLogs >>

\* A call written a second time.
WriteCall_Twice(w, call) == w \o << call, call >>

\* writer.writeCall(call)
WriteCall(w, call) == Append(w, call)

\* The membership test negated (== in place of !=).
IsRequired_Negated(call, req) == call.no \notin req

\* required->find(call->no) != required->end()
IsRequired(call, req) == call.no \in req

\* The printing without the test that the closed range has two ends.
PrintCall_AlwaysDash(call, first, last, printed) ==
    IF first < 0 THEN Append(printed, [sep |-> "", no |-> call.no, nl |-> FALSE])
    ELSE IF call.no # last + 1
      THEN printed \o << [sep |-> "-", no |-> last, nl |-> FALSE],
                         [sep |-> ",", no |-> call.no, nl |-> FALSE] >>
    ELSE printed

Piece(sep, n, nl) == [sep |-> sep, no |-> n, nl |-> nl]

\* The printf calls of one written call under --print-callset.
PrintCall(call, first, last, printed) ==
    IF first < 0 THEN Append(printed, Piece("", call.no, FALSE))
    ELSE IF call.no # last + 1
      THEN (IF last # first THEN Append(printed, Piece("-", last, FALSE))
            ELSE printed) \o << Piece(",", call.no, FALSE) >>
    ELSE printed

RangeFirst(call, first, last) ==
    IF first < 0 \/ call.no # last + 1 THEN call.no ELSE first

\* After the loop: the last range is closed.
PrintFlush(o, first, last, printed) ==
    IF o.print_callset # 0 /\ last # first
    THEN Append(printed, Piece("-", last, TRUE))
    ELSE printed

\* "Trimmed trace is available as ..."; return 0.
Return0 ==
    /\ out' = PrintFlush(options, call_range_first, call_range_last, out)
    /\ pc' = "done"
    /\ exit_code' = 0

\* Pass 2: parse_call returned NULL.
Pass2Eof ==
    /\ pc = "pass2"
    /\ AtEnd
    /\ eof' = TRUE
    /\ Return0
    /\ UNCHANGED << options, stream, pos, frame, analyzerVars, written,
                    call_range_first, call_range_last, err, live, positional, passLogs >>

\* Pass 2: break (the call record is not deleted).
Pass2Stop == \E call \in NextCalls :
    /\ pc = "pass2"
    /\ Parsed(call)
    /\ PastLast(call, frame, options)
    /\ stop2' = << <<call, frame>> >>
    /\ live' = live + 1
    /\ Return0
    /\ UNCHANGED << options, frame, analyzerVars, written, call_range_first,
                    call_range_last, err, positional, seen1, seen2, stop1 >>

\* Pass 2: a required call is written (and its number printed).
Pass2Write == \E call \in NextCalls :
    /\ pc = "pass2"
    /\ Parsed(call)
    /\ ~PastLast(call, frame, options)
    /\ IsRequired(call, required)
    /\ written' = WriteCall(written, call)
    /\ IF options.print_callset # 0
         THEN /\ out' = PrintCall(call, call_range_first, call_range_last, out)
              /\ call_range_first' = RangeFirst(call, call_range_first, call_range_last)
              /\ call_range_last' = call.no
         ELSE UNCHANGED printVars
    /\ seen2' = Append(seen2, <<call, frame>>)
    /\ frame' = NextFrame(call, frame)
    /\ UNCHANGED << pc, options, analyzerVars, err, exit_code, live, positional,
                    seen1, stop1, stop2 >>

\* Pass 2 passing over a call with `continue`: no frame++.
Pass2Skip_NoFrame == \E call \in NextCalls :
    /\ pc = "pass2"
    /\ Parsed(call)
    /\ ~PastLast(call, frame, options)
    /\ ~IsRequired(call, required)
    /\ seen2' = Append(seen2, <<call, frame>>)
    /\ UNCHANGED << pc, options, frame, analyzerVars, written, printVars, err,
                    exit_code, live, positional, seen1, stop1, stop2 >>

\* Pass 2: a call that is not required is passed over.
Pass2Skip == \E call \in NextCalls :
    /\ pc = "pass2"
    /\ Parsed(call)
    /\ ~PastLast(call, frame, options)
    /\ ~IsRequired(call, required)
    /\ seen2' = Append(seen2, <<call, frame>>)
    /\ frame' = NextFrame(call, frame)
    /\ UNCHANGED << pc, options, analyzerVars, written, printVars, err,
                    exit_code, live, positional, seen1, stop1, stop2 >>

----------------------------------------------------------------------------
Next ==
    \/ OptCalls \/ OptFrames \/ OptDeps \/ OptPrune \/ OptAuto \/ OptThread
    \/ OptOutput \/ OptPrintCallset \/ OptHelp \/ OptUnexpected \/ EndOptions
    \/ OpenInputFail \/ OpenInput
    \/ Pass1Eof \/ Pass1Stop \/ Pass1OtherThread \/ Pass1Prune \/ Pass1Call
    \/ WriterOpenFail \/ WriterOpen
    \/ Pass2Eof \/ Pass2Stop \/ Pass2Write \/ Pass2Skip

Spec == Init /\ [][Next]_vars

----------------------------------------------------------------------------
(* Traces known in full from the start: a call A, a call B that rests on   *)
(* the state A sets up, and possibly an unrelated call C after them.       *)

DepStreams ==
    LET AB == { << Call(0, ta, fa, {}), Call(1, tb, {}, {0}) >> :
                  ta \in ThreadIds, fa \in SUBSET CallFlags, tb \in ThreadIds }
        C  == { Call(2, tc, fc, {}) : tc \in ThreadIds, fc \in SUBSET CallFlags }
    IN  AB \cup { Append(ab, c) : ab \in AB, c \in C }

InitDeps ==
    /\ pc = "getopt"
    /\ options = [ calls |-> CallSetNone,
                   frames |-> CallSetNone,
                   dependency_analysis |-> FALSE,
                   prune_uninteresting |-> FALSE,
                   output |-> <<>>,
                   thread |-> -1,
                   print_callset |-> 0 ]
    /\ stream \in DepStreams
    /\ eof = TRUE
    /\ pos = 0
    /\ frame = 0
    /\ tracked = {}
    /\ required = {}
    /\ written = <<>>
    /\ call_range_first = -1
    /\ call_range_last = -1
    /\ out = <<>>
    /\ err = <<>>
    /\ exit_code = -1
    /\ positional = -1
    /\ live = 0
    /\ requireLog = <<>>
    /\ analyzeLog = <<>>
    /\ seen1 = <<>>
    /\ seen2 = <<>>
    /\ stop1 = <<>>
    /\ stop2 = <<>>

SpecDeps == InitDeps /\ [][Next]_vars

----------------------------------------------------------------------------
(* Longer traces known in full from the start, trimmed with call sets of   *)
(* several ranges: command lines without --prune, --auto, -o and --help,   *)
(* on files that open.                                                     *)

MaxWideCalls == 4

\* The calls a longer trace may hold at number n: a plain call, a call that
\* ends a frame, a call of the other thread, a call resting on the one before.
WideCalls(n) ==
    { Call(n, 0, {}, {}), Call(n, 0, {CALL_FLAG_END_FRAME}, {}), Call(n, 1, {}, {}) }
    \cup (IF n > 0 THEN { Call(n, 0, {}, {n - 1}) } ELSE {})

RECURSIVE WideStreamsOfLen(_)
WideStreamsOfLen(n) ==
    IF n = 0 THEN { <<>> }
    ELSE { Append(s, c) : s \in WideStreamsOfLen(n - 1), c \in WideCalls(n - 1) }

WideStreams == UNION { WideStreamsOfLen(n) : n \in 1..MaxWideCalls }

WideCallsArgs ==
    { <<Range(2, 2)>>, <<Range(0, 1), Range(3, 3)>>, <<OpenRange(1)>> }

OptCallsWide == \E arg \in WideCallsArgs :
    SetOption([options EXCEPT !.calls = CallSetParse(arg)])

InitWide ==
    /\ pc = "getopt"
    /\ options = [ calls |-> CallSetNone,
                   frames |-> CallSetNone,
                   dependency_analysis |-> FALSE,
                   prune_uninteresting |-> FALSE,
                   output |-> <<>>,
                   thread |-> -1,
                   print_callset |-> 0 ]
    /\ stream \in WideStreams
    /\ eof = TRUE
    /\ pos = 0
    /\ frame = 0
    /\ tracked = {}
    /\ required = {}
    /\ written = <<>>
    /\ call_range_first = -1
    /\ call_range_last = -1
    /\ out = <<>>
    /\ err = <<>>
    /\ exit_code = -1
    /\ positional = -1
    /\ live = 0
    /\ requireLog = <<>>
    /\ analyzeLog = <<>>
    /\ seen1 = <<>>
    /\ seen2 = <<>>
    /\ stop1 = <<>>
    /\ stop2 = <<>>

NextWide ==
    \/ OptCallsWide \/ OptFrames \/ OptDeps \/ OptThread \/ OptPrintCallset
    \/ EndOptions \/ OpenInput
    \/ Pass1Eof \/ Pass1Stop \/ Pass1OtherThread \/ Pass1Call
    \/ WriterOpen
    \/ Pass2Eof \/ Pass2Stop \/ Pass2Write \/ Pass2Skip

SpecWide == InitWide /\ [][NextWide]_vars

\* Pass 1 of trim_trace as a function of the trace and the options: the
\* required set it leaves, from call i on with frame counter fr, analyzer
\* state tr and required set req.
RECURSIVE Pass1Fold(_, _, _, _, _, _)
Pass1Fold(s, i, fr, tr, req, o) ==
    IF i > Len(s) THEN req
    ELSE LET call == s[i] IN
      IF PastLast(call, fr, o) THEN req
      ELSE IF OtherThread(call, o) \/ Uninteresting(call, o)
        THEN Pass1Fold(s, i + 1, NextFrame(call, fr), tr, req, o)
      ELSE Pass1Fold(s, i + 1, NextFrame(call, fr),
                     IF o.dependency_analysis THEN AnalyzerAnalyze(call, tr) ELSE tr,
                     IF Selected(call, fr, o) THEN AnalyzerRequire(call, tr, req) ELSE req,
                     o)

RequiredOf(s, o) == Pass1Fold(s, 1, 0, {}, {}, o)

----------------------------------------------------------------------------
(* Properties *)

Elems(seq) == {seq[i] : i \in DOMAIN seq}
Nos(seq) == {seq[i].no : i \in DOMAIN seq}
CallsOf(log) == [i \in DOMAIN log |-> log[i][1]]

\* The value of the frame counter when the i-th call of the file is read.
FrameAt(i) ==
    Cardinality({k \in 1..(i - 1) : CALL_FLAG_END_FRAME \in stream[k].flags})

\* a is a subsequence of b
RECURSIVE IsSubseq(_, _)
IsSubseq(a, b) ==
    IF a = <<>> THEN TRUE
    ELSE IF b = <<>> THEN FALSE
    ELSE IF Head(a) = Head(b) THEN IsSubseq(Tail(a), Tail(b))
    ELSE IsSubseq(a, Tail(b))

NoFilters ==
    /\ ~options.dependency_analysis
    /\ ~options.prune_uninteresting
    /\ options.thread = -1

\* C1: with only --calls=S given (frames NONE, no deps, no prune, no thread
\* filter), a finished trim has written exactly the calls of the stream
\* whose number is in S, in stream order.
C1_OnlyCallsWritesSelection ==
    (/\ pc = "done"
     /\ NoFilters
     /\ ~options.calls.all /\ ~CallSetEmpty(options.calls)
     /\ CallSetEmpty(options.frames))
    => LET InS(c) == CallSetContains(options.calls, c.no)
       IN  written = SelectSeq(stream, InS)

\* C2: with neither --calls nor --frames given (and no deps, prune or
\* thread filter) the selection is ALL and a finished trim has written every
\* call of the stream.
C2_DefaultWritesAll ==
    (/\ pc = "done"
     /\ NoFilters
     /\ CallSetEmpty(options.frames)
     /\ ~(\E arg \in CallsArgs : options.calls = CallSetParse(arg)))
    => /\ options.calls = CallSetAll
       /\ written = stream

\* C3: pass 1 takes its break at a call only when both the call number is
\* past calls.getLast() and the frame counter is past frames.getLast().
C3_Pass1StopsOnlyWhenBothExhausted ==
    stop1 # <<>> =>
        /\ Exceeds(stop1[1][1].no, CallSetGetLast(options.calls))
        /\ Exceeds(stop1[1][2], CallSetGetLast(options.frames))

\* C4: after trim_trace returns 0, a call of the stream has been written if
\* and only if its number is in the required set, each written call was
\* written once, and every required number has been written.
C4_Pass2EmitsExactlyRequired ==
    pc = "done" =>
        /\ \A i \in DOMAIN stream :
              stream[i] \in Elems(written) <=> stream[i].no \in required
        /\ \A i, j \in DOMAIN written : written[i] = written[j] => i = j
        /\ required \subseteq Nos(written)

C4_Witness ==
    /\ pc = "done"
    /\ stop2 # <<>>
    /\ written # <<>>
    /\ \E i \in DOMAIN seen2 : seen2[i][1].no \notin required

\* C5: the call numbers written by pass 2 are strictly increasing, and the
\* written calls are a subsequence of the calls of the input stream.
C5_WrittenIncreasingSubsequence ==
    /\ \A i, j \in DOMAIN written : i < j => written[i].no < written[j].no
    /\ IsSubseq(written, stream)

C5_Witness ==
    /\ pc = "done"
    /\ Len(written) >= 2
    /\ Len(written) < Len(stream)

\* C6: with dependency analysis enabled, every call pass 1 goes on to
\* process (does not break on) is handed to analyzer.analyze, whether or not
\* the thread filter or pruning skipped its selection.
C6_AnalyzeEveryProcessedCall ==
    options.dependency_analysis => analyzeLog = CallsOf(seen1)

\* C7: with the thread filter off, a call flagged uninteresting whose number
\* lies in the range given with --calls is neither required nor written when
\* --prune is set, and is required and written when --prune is not set.
C7_PruneDecidesUninterestingCall ==
    (pc = "done" /\ options.thread = -1 /\ ~options.calls.all) =>
        \A i \in DOMAIN stream :
            (/\ CALL_FLAG_VERBOSE \in stream[i].flags
             /\ CallSetContains(options.calls, stream[i].no))
            => IF options.prune_uninteresting
               THEN stream[i].no \notin required /\ stream[i] \notin Elems(written)
               ELSE stream[i].no \in required /\ stream[i] \in Elems(written)

\* C8: with thread filter T # -1, analyzer.require is never invoked on a
\* call of another thread and, without dependency analysis, every written
\* call has thread T; with the filter at -1 the calls handed to require are
\* the processed calls that pass the prune gate and the selection test,
\* whatever their thread.
C8_ThreadFilterGatesRequire ==
    /\ options.thread # -1 =>
          \A c \in Elems(requireLog) : c.thread_id = options.thread
    /\ (options.thread # -1 /\ ~options.dependency_analysis) =>
          \A c \in Elems(written) : c.thread_id = options.thread
    /\ options.thread = -1 =>
          LET Chosen(s) == /\ ~Uninteresting(s[1], options)
                           /\ Selected(s[1], s[2], options)
          IN  requireLog = CallsOf(SelectSeq(seen1, Chosen))

C8_Witness ==
    /\ pc = "done"
    /\ options.thread # -1
    /\ ~options.dependency_analysis
    /\ written # <<>>
    /\ \E i \in DOMAIN seen1 :
          /\ seen1[i][1].thread_id # options.thread
          /\ Selected(seen1[i][1], seen1[i][2], options)

\* C9: with only --frames=F given (calls NONE, no deps, no prune, no thread
\* filter), the required set of a finished trim is the set of calls read
\* while the frame counter is a member of F.
C9_OnlyFramesRequiresFrameCalls ==
    (/\ pc = "done"
     /\ NoFilters
     /\ options.calls = CallSetNone
     /\ ~CallSetEmpty(options.frames))
    => required = { stream[i].no : i \in
                      {k \in DOMAIN stream :
                          CallSetContains(options.frames, FrameAt(k))} }

\* C10: on a stream [A, B, C] where B rests on A's state and C is unrelated,
\* a selection that names only B yields the required set {A, B} with --deps
\* and {B} without (no prune, no thread filter).
C10_DepsAddProvider ==
    (/\ pc = "done"
     /\ Len(stream) = 3
     /\ ~options.prune_uninteresting /\ options.thread = -1
     /\ \A i \in DOMAIN stream :
           Selected(stream[i], FrameAt(i), options) <=> i = 2)
    => required = IF options.dependency_analysis
                  THEN {stream[1].no, stream[2].no}
                  ELSE {stream[2].no}

FailedCreate == err # <<>> /\ err[1].msg = "failed to create"
BeforeWriter == {"getopt", "trim_trace", "pass1", "prepare"}

\* C12: no call is written and pass 2 has read nothing before the writer
\* is opened after pass 1; when writer.open fails, trim_trace returns 1 with
\* no call written, the parser not set back, and pass 2 not started.
C12_CreateFailureStopsBeforePass2 ==
    /\ pc \in BeforeWriter => written = <<>> /\ seen2 = <<>> /\ stop2 = <<>>
    /\ FailedCreate =>
          /\ pc = "exit" /\ exit_code = 1
          /\ written = <<>> /\ seen2 = <<>> /\ stop2 = <<>>
          /\ pos = Len(seen1) + Len(stop1)

C12_Witness ==
    /\ FailedCreate
    /\ requireLog # <<>>
    /\ pos > 0

\* C13: with zero or more than one positional argument command returns 1
\* and trim_trace is not called (no stream opened, nothing read or written);
\* trim_trace runs only with exactly one positional argument.
C13_PositionalCountGuardsTrim ==
    /\ positional \in {0, 2} =>
          /\ pc = "exit" /\ exit_code = 1
          /\ stream = <<>> /\ written = <<>>
          /\ err # <<>> /\ err[1].msg \in {"requires a trace file", "extraneous arguments"}
    /\ pc \in {"trim_trace", "pass1", "prepare", "pass2", "done"} => positional = 1
    /\ (stream # <<>> \/ eof \/ FailedCreate) => positional = 1

C13_Witness ==
    /\ positional = 2
    /\ pc = "exit"
    /\ ~CallSetEmpty(options.calls) /\ ~CallSetEmpty(options.frames)

\* C15: at most one call record is unreleased at any time, and none is
\* left when command has returned.
C15_CallRecordsReleased ==
    /\ live <= 1
    /\ pc \in {"done", "exit"} => live = 0

\* C16: in each pass, a call is examined with the frame counter equal to
\* the number of calls flagged END_FRAME read before it in that pass,
\* whatever happened to those calls; the counter starts each pass at 0.
C16_FrameCounterCountsEndFrames ==
    /\ \A i \in DOMAIN seen1 : seen1[i] = << stream[i], FrameAt(i) >>
    /\ \A i \in DOMAIN seen2 : seen2[i] = << stream[i], FrameAt(i) >>
    /\ stop1 # <<>> => stop1[1][2] = FrameAt(Len(seen1) + 1)
    /\ stop2 # <<>> => stop2[1][2] = FrameAt(Len(seen2) + 1)
    /\ pc \in {"pass1", "pass2"} => frame = FrameAt(pos + 1)

C16_Witness ==
    /\ pc = "done"
    /\ \E i, j \in DOMAIN seen1 :
          /\ i < j
          /\ OtherThread(seen1[i][1], options)
          /\ CALL_FLAG_END_FRAME \in seen1[i][1].flags
          /\ seen1[j][2] > 0
          /\ j \in DOMAIN seen2 /\ seen2[j][2] > 0

C17_Step ==
    /\ pc \in BeforeWriter => written = <<>> /\ seen2 = <<>> /\ stop2 = <<>>
    /\ pc \in {"pass2", "done"} => UNCHANGED analyzerVars
    /\ (pc = "prepare" /\ pc' = "pass2") => pos' = 0
    /\ pc # "prepare" => pos' >= pos

\* C17: nothing is written or read by pass 2 before pass 1 has ended; the
\* parser is set back to the bookmark in the one step that leads from pass 1
\* to pass 2 and nowhere else; during pass 2 neither require nor analyze is
\* invoked and the required set does not change.
C17_Pass1BeforePass2 == [][C17_Step]_vars

C17_Witness ==
    /\ pc = "done"
    /\ requireLog # <<>> /\ analyzeLog # <<>>
    /\ written # <<>>
    /\ Len(seen2) >= 2

\* C18: when the output cannot be created, the error names the output path
\* (options->output, given with -o or derived) and the exit code is 1.
C18_CreateErrorNamesOutput ==
    FailedCreate => err[1].path = options.output /\ exit_code = 1

\* C19: pass 2 goes on to process exactly the calls pass 1 went on to
\* process, and takes its break at the same call, if at all.
C19_PassesExamineSameCalls ==
    pc = "done" =>
        /\ CallsOf(seen2) = CallsOf(seen1)
        /\ CallsOf(stop2) = CallsOf(stop1)

C19_Witness ==
    /\ pc = "done"
    /\ stop1 # <<>>
    /\ Len(seen1) >= 2
    /\ \E i \in DOMAIN seen1 :
          OtherThread(seen1[i][1], options) \/ Uninteresting(seen1[i][1], options)
    /\ \E i \in DOMAIN seen2 : seen2[i][1].no \notin required

SetMin(S) == CHOOSE m \in S : \A x \in S : m <= x

\* The text of the maximal runs of consecutive numbers of S, in increasing
\* order: `a` or `a-b` each, separated by commas.
RECURSIVE RunsText(_, _)
RunsText(S, sep) ==
    IF S = {} THEN <<>>
    ELSE LET a == SetMin(S)
             b == SetMax({k \in S : \A j \in a..k : j \in S})
         IN  << [sep |-> sep, no |-> a] >>
             \o (IF b > a THEN << [sep |-> "-", no |-> b] >> ELSE <<>>)
             \o RunsText(S \ (a..b), ",")

Text(printed) == [i \in DOMAIN printed |-> [sep |-> printed[i].sep, no |-> printed[i].no]]

\* The runs text with the end of its last run not yet printed.
OpenText(S) ==
    LET full == RunsText(S, "")
    IN  IF full # <<>> /\ full[Len(full)].sep = "-"
        THEN SubSeq(full, 1, Len(full) - 1) ELSE full

\* C11: with --print-callset, when trim_trace returns 0 the printed text is
\* the comma-separated list of the maximal runs of consecutive written call
\* numbers, `first` or `first-last` each, in increasing order; while pass 2
\* runs, the end of the last run is not printed yet; without --print-callset
\* nothing is printed.
C11_PrintedCallsetIsMaximalRuns ==
    /\ options.print_callset = 0 => out = <<>>
    /\ (options.print_callset # 0 /\ pc = "done") =>
          Text(out) = RunsText(Nos(written), "")
    /\ (options.print_callset # 0 /\ pc = "pass2") =>
          Text(out) = OpenText(Nos(written))

C11_Witness ==
    /\ pc = "done"
    /\ options.print_callset # 0
    /\ Nos(written) = {0, 1, 3}

\* C14 as claimed: trimming the written trace again with the same options
\* yields the required set of the first trim.
C14_RetrimSameRequired ==
    pc = "done" => RequiredOf(written, options) = required

\* C14 as amended: the required set of the second trim is contained in that
\* of the first, and is identical whenever every call the first trim handed
\* to require is in the --calls set.  (RequiredOf on the input trace is the
\* required set the first trim computed.)
C14_RetrimWithinFirstRequired ==
    pc = "done" =>
        /\ RequiredOf(stream, options) = required
        /\ RequiredOf(written, options) \subseteq required
        /\ (\A c \in Elems(requireLog) : CallSetContains(options.calls, c.no))
              => RequiredOf(written, options) = required

C14_Witness ==
    /\ pc = "done"
    /\ options.dependency_analysis
    /\ Len(written) >= 2 /\ Len(written) < Len(seen1)
    /\ \E c \in Elems(written) : c.needs # {}
    /\ \A c \in Elems(requireLog) : CallSetContains(options.calls, c.no)
    /\ ~ \A c \in Elems(written) : CallSetContains(options.calls, c.no)
    /\ RequiredOf(written, options) = required

====
